---- MODULE Spec2Model ----
(***************************************************************************)
(* Model of the seat-locking ticket booking server (server.js) and of the  *)
(* two-claimant race driven by its demo client (test.js).                  *)
(*                                                                         *)
(* Node runs every HTTP handler, timer callback and interval callback to   *)
(* completion on one thread, so each of them is one atomic action.  Time   *)
(* is in milliseconds; Date.now() and the timer clock are the variable     *)
(* now, which never decreases.  A timer or the sweep may run late by any   *)
(* amount (a busy event loop), never early.                                *)
(***************************************************************************)
EXTENDS Integers, FiniteSets, Sequences, TLC

VARIABLES seats, timers, now, ticks, sweepAt, resp, client

vars == <<seats, timers, now, ticks, sweepAt, resp, client>>

----------------------------------------------------------------------------
(* Program constants *)

LOCK_DURATION_MS == 60000
CLEANUP_INTERVAL_MS == 5000
GRACE_MS == 5
NUM_SEATS == 20
targetSeat == 5

(* JavaScript null for the numeric fields (falsy, like 0) and for owners *)
null == 0
nullOwner == "null"

(* a slip: the loop that fills the pool running one id too far *)
SeatIdsOneMore == 1..(NUM_SEATS + 1)

SeatIds == 1..NUM_SEATS
userA == "alice"
userB == "bob"
Users == {userA, userB}

----------------------------------------------------------------------------
(* Bounds of the exploration *)

MaxTicks == 3
MaxHandles == 3
MaxTimedTicks == 14

Handles == 1..MaxHandles
TickSteps == {GRACE_MS, CLEANUP_INTERVAL_MS, LOCK_DURATION_MS}

(* seat ids that requests name: the contested seat of test.js and the     *)
(* first id past the pool                                                  *)
ReqSeatIds == {targetSeat, NUM_SEATS + 1}

(* request bodies: seatId of JavaScript type number or not, userId a       *)
(* non-empty string or the empty (falsy) one                               *)
Bodies ==
  [seatId : ReqSeatIds, seatIdType : {"number"}, userId : Users \cup {""}]
    \cup [seatId : {targetSeat}, seatIdType : {"string"}, userId : {userA}]

----------------------------------------------------------------------------
(* Helpers *)

Max(a, b) == IF a >= b THEN a ELSE b

NewSeat(i) ==
  [id |-> i, status |-> "available", lockOwner |-> nullOwner,
   lockExpiresAt |-> null, timeoutId |-> null]

(* a slip: a lock that is still good at the very millisecond it expires *)
ExpiredStrict(seat, t) == seat.lockExpiresAt # null /\ t > seat.lockExpiresAt

(* a slip: the expiry comparison the wrong way round *)
ExpiredFlipped(seat, t) == seat.lockExpiresAt # null /\ t <= seat.lockExpiresAt

(* the test `seat.lockExpiresAt && Date.now() >= seat.lockExpiresAt` *)
Expired(seat, t) == seat.lockExpiresAt # null /\ t >= seat.lockExpiresAt

(* a slip: one timer handle shared by all seats, so clearing clears all *)
clearTimeoutAll(T, h) == {}

clearTimeout(T, h) == {t \in T : t.id # h}

(* a slip: a release that leaves the owner in place *)
releaseLockSeatKeepsOwner(seat) ==
  [seat EXCEPT !.timeoutId = null, !.status = "available", !.lockExpiresAt = null]

(* releaseLock: the seat record afterwards, and the pending timers afterwards *)
releaseLockSeat(seat) ==
  [seat EXCEPT !.timeoutId = null, !.status = "available",
               !.lockOwner = nullOwner, !.lockExpiresAt = null]

(* a slip: a release that leaves the seat's timer pending *)
releaseLockTimersForgets(T, seat) == T

releaseLockTimers(T, seat) ==
  IF seat.timeoutId # null THEN clearTimeout(T, seat.timeoutId) ELSE T

(* a slip: a booking that clears the owner as releaseLock does *)
confirmSeatDropsOwner(seat, userId) ==
  [seat EXCEPT !.timeoutId = null, !.status = "booked",
               !.lockOwner = nullOwner, !.lockExpiresAt = null]

(* the booking made by /confirm; its clearTimeout is releaseLockTimers *)
confirmSeat(seat, userId) ==
  [seat EXCEPT !.timeoutId = null, !.status = "booked",
               !.lockOwner = userId, !.lockExpiresAt = null]

(* setTimeout returns a handle distinct from every live one; the handle   *)
(* seat i holds is about to be overwritten, so it does not count           *)
FreeHandles(S, T, i) ==
  {h \in Handles : /\ \A t \in T : t.id # h
                   /\ \A j \in SeatIds \ {i} : S[j].timeoutId # h}

FreshHandle(S, T, i) ==
  CHOOSE h \in FreeHandles(S, T, i) : \A g \in FreeHandles(S, T, i) : h <= g

(* a slip: scheduling without cancelling the timer the seat already has *)
scheduleAutoReleaseNoClear(S, T, seat, t) ==
  LET ms == Max(0, seat.lockExpiresAt - t)
      h  == FreshHandle(S, T, seat.id)
  IN  [timers |-> T \cup {[id |-> h, seat |-> seat.id, fireAt |-> t + ms + GRACE_MS]},
       seat   |-> [seat EXCEPT !.timeoutId = h]]

(* scheduleAutoRelease(seat) run at time t: the pending timers afterwards *)
(* and the seat record afterwards                                          *)
scheduleAutoRelease(S, T, seat, t) ==
  LET T1 == IF seat.timeoutId # null THEN clearTimeout(T, seat.timeoutId) ELSE T
      ms == Max(0, seat.lockExpiresAt - t)
      h  == FreshHandle(S, T1, seat.id)
  IN  [timers |-> T1 \cup {[id |-> h, seat |-> seat.id, fireAt |-> t + ms + GRACE_MS]},
       seat   |-> [seat EXCEPT !.timeoutId = h]]

(* the handle pool is a bound of the exploration, not of the program *)
CanSchedule(S, T, seat) ==
  FreeHandles(S, IF seat.timeoutId # null THEN clearTimeout(T, seat.timeoutId) ELSE T,
              seat.id) # {}

(* slips: a status test that lets a booked seat through, an ownership     *)
(* test that never rejects                                                 *)
NotLockedOnlyAvailable(seat) == seat.status = "available"

NotOwnerNever(seat, userId) == FALSE

(* the tests `seat.status !== 'locked'` and `seat.lockOwner !== userId` of *)
(* /confirm and /release                                                   *)
NotLocked(seat) == seat.status # "locked"

NotOwner(seat, userId) == seat.lockOwner # userId

(* A response: the request it answers, the HTTP status, the kind of        *)
(* message, the owner the message names, the lockExpiresAt of the payload. *)
(* path is not sent: it records that /lock first released an expired lock  *)
(* of the requester ("expired-own") or of another user ("expired-other"),  *)
(* or that /lock directly followed a successful /release of the seat by    *)
(* the requester ("released-own") or by another user ("released-other"),   *)
(* or that /confirm directly followed the same user's successful /lock on  *)
(* the seat after that lock's lockExpiresAt ("lapsed").                    *)
Response(op, b, code, kind, holder) ==
  [op |-> op, seatId |-> b.seatId, userId |-> b.userId, code |-> code,
   kind |-> kind, holder |-> holder, expiresAt |-> null, path |-> ""]

LockResponse(b, kind, seat, path) ==
  [op |-> "lock", seatId |-> b.seatId, userId |-> b.userId, code |-> 200,
   kind |-> kind, holder |-> nullOwner, expiresAt |-> seat.lockExpiresAt,
   path |-> path]

AfterRelease(b) ==
  /\ resp.op = "release" /\ resp.code = 200
  /\ resp.seatId = b.seatId

LockPath(b, seat) ==
  IF seat.status = "locked"
  THEN IF seat.lockOwner = b.userId THEN "expired-own" ELSE "expired-other"
  ELSE IF AfterRelease(b)
  THEN IF resp.userId = b.userId THEN "released-own" ELSE "released-other"
  ELSE ""

Lapsed(b) ==
  /\ resp.op = "lock" /\ resp.code = 200
  /\ resp.seatId = b.seatId /\ resp.userId = b.userId
  /\ now >= resp.expiresAt

ConfirmResponse(b, code, kind, holder) ==
  [Response("confirm", b, code, kind, holder)
     EXCEPT !.path = IF Lapsed(b) THEN "lapsed" ELSE ""]

BadRequest(b) == b.seatIdType # "number" \/ b.userId = ""

----------------------------------------------------------------------------
(* State after construction *)

(* what the client of test.js knows of a user's two requests: the kind of  *)
(* each answer, the holder it names, when and in which order it was served *)
IdleClient ==
  [pc |-> "idle", lockKind |-> "none", lockHolder |-> nullOwner, lockAt |-> 0,
   lockSeq |-> 0, lockExpiresAt |-> null, confirmKind |-> "none",
   confirmAt |-> 0, confirmSeq |-> 0]

Init ==
  /\ seats = [i \in SeatIds |-> NewSeat(i)]
  /\ timers = {}
  /\ now = 0
  /\ ticks = 0
  /\ sweepAt = CLEANUP_INTERVAL_MS
  /\ resp = [op |-> "none", seatId |-> 0, userId |-> "", code |-> 0,
             kind |-> "none", holder |-> nullOwner, expiresAt |-> null,
             path |-> ""]
  /\ client = [u \in Users |-> IdleClient]

----------------------------------------------------------------------------
(* POST /lock *)

LockStep(b) ==
  IF BadRequest(b)
  THEN /\ resp' = Response("lock", b, 400, "BadRequest", nullOwner)
       /\ UNCHANGED <<seats, timers>>
  ELSE IF b.seatId \notin SeatIds
  THEN /\ resp' = Response("lock", b, 404, "NotFound", nullOwner)
       /\ UNCHANGED <<seats, timers>>
  ELSE LET seat == seats[b.seatId] IN
    IF seat.status = "booked"
    THEN /\ resp' = Response("lock", b, 409, "AlreadyBooked", nullOwner)
         /\ UNCHANGED <<seats, timers>>
    ELSE IF seat.status = "locked" /\ ~Expired(seat, now)
    THEN IF seat.lockOwner = b.userId
         THEN (* refresh lock (extend) *)
              LET s1  == [seat EXCEPT !.lockExpiresAt = now + LOCK_DURATION_MS]
                  sch == scheduleAutoRelease(seats, timers, s1, now)
              IN  /\ CanSchedule(seats, timers, s1)
                  /\ timers' = sch.timers
                  /\ seats' = [seats EXCEPT ![b.seatId] = sch.seat]
                  /\ resp' = LockResponse(b, "LockRefreshed", sch.seat, "")
         ELSE /\ resp' = Response("lock", b, 409, "LockConflict", seat.lockOwner)
              /\ UNCHANGED <<seats, timers>>
    ELSE (* available, or locked and expired (released first): lock it *)
         LET rel == seat.status = "locked"
             s0  == IF rel THEN releaseLockSeat(seat) ELSE seat
             T0  == IF rel THEN releaseLockTimers(timers, seat) ELSE timers
             s1  == [s0 EXCEPT !.status = "locked", !.lockOwner = b.userId,
                               !.lockExpiresAt = now + LOCK_DURATION_MS]
             sch == scheduleAutoRelease(seats, T0, s1, now)
         IN  /\ CanSchedule(seats, T0, s1)
             /\ timers' = sch.timers
             /\ seats' = [seats EXCEPT ![b.seatId] = sch.seat]
             /\ resp' = LockResponse(b, "Locked", sch.seat, LockPath(b, seat))

Lock(b) ==
  /\ LockStep(b)
  /\ UNCHANGED <<now, ticks, sweepAt, client>>

----------------------------------------------------------------------------
(* POST /confirm *)

ConfirmStep(b) ==
  IF BadRequest(b)
  THEN /\ resp' = ConfirmResponse(b, 400, "BadRequest", nullOwner)
       /\ UNCHANGED <<seats, timers>>
  ELSE IF b.seatId \notin SeatIds
  THEN /\ resp' = ConfirmResponse(b, 404, "NotFound", nullOwner)
       /\ UNCHANGED <<seats, timers>>
  ELSE LET seat == seats[b.seatId] IN
    IF seat.status = "booked"
    THEN /\ resp' = ConfirmResponse(b, 409, "AlreadyBooked", nullOwner)
         /\ UNCHANGED <<seats, timers>>
    ELSE IF NotLocked(seat)
    THEN /\ resp' = ConfirmResponse(b, 409, "NotLocked", nullOwner)
         /\ UNCHANGED <<seats, timers>>
    ELSE IF NotOwner(seat, b.userId)
    THEN /\ resp' = ConfirmResponse(b, 403, "NotLockOwner", seat.lockOwner)
         /\ UNCHANGED <<seats, timers>>
    ELSE IF Expired(seat, now)
    THEN /\ seats' = [seats EXCEPT ![b.seatId] = releaseLockSeat(seat)]
         /\ timers' = releaseLockTimers(timers, seat)
         /\ resp' = ConfirmResponse(b, 409, "LockExpired", nullOwner)
    ELSE /\ seats' = [seats EXCEPT ![b.seatId] = confirmSeat(seat, b.userId)]
         /\ timers' = releaseLockTimers(timers, seat)
         /\ resp' = ConfirmResponse(b, 200, "Booked", b.userId)

Confirm(b) ==
  /\ ConfirmStep(b)
  /\ UNCHANGED <<now, ticks, sweepAt, client>>

----------------------------------------------------------------------------
(* POST /release *)

(* a slip: the release done before the ownership test *)
ReleaseStepActsFirst(b) ==
  IF BadRequest(b)
  THEN /\ resp' = Response("release", b, 400, "BadRequest", nullOwner)
       /\ UNCHANGED <<seats, timers>>
  ELSE IF b.seatId \notin SeatIds
  THEN /\ resp' = Response("release", b, 404, "NotFound", nullOwner)
       /\ UNCHANGED <<seats, timers>>
  ELSE LET seat == seats[b.seatId] IN
    IF NotLocked(seat)
    THEN /\ resp' = Response("release", b, 409, "NotLocked", nullOwner)
         /\ UNCHANGED <<seats, timers>>
    ELSE /\ seats' = [seats EXCEPT ![b.seatId] = releaseLockSeat(seat)]
         /\ timers' = releaseLockTimers(timers, seat)
         /\ resp' = IF NotOwner(seat, b.userId)
                    THEN Response("release", b, 403, "NotLockOwner", nullOwner)
                    ELSE Response("release", b, 200, "Released", nullOwner)

ReleaseStep(b) ==
  IF BadRequest(b)
  THEN /\ resp' = Response("release", b, 400, "BadRequest", nullOwner)
       /\ UNCHANGED <<seats, timers>>
  ELSE IF b.seatId \notin SeatIds
  THEN /\ resp' = Response("release", b, 404, "NotFound", nullOwner)
       /\ UNCHANGED <<seats, timers>>
  ELSE LET seat == seats[b.seatId] IN
    IF NotLocked(seat)
    THEN /\ resp' = Response("release", b, 409, "NotLocked", nullOwner)
         /\ UNCHANGED <<seats, timers>>
    ELSE IF NotOwner(seat, b.userId)
    THEN /\ resp' = Response("release", b, 403, "NotLockOwner", nullOwner)
         /\ UNCHANGED <<seats, timers>>
    ELSE /\ seats' = [seats EXCEPT ![b.seatId] = releaseLockSeat(seat)]
         /\ timers' = releaseLockTimers(timers, seat)
         /\ resp' = Response("release", b, 200, "Released", nullOwner)

Release(b) ==
  /\ ReleaseStep(b)
  /\ UNCHANGED <<now, ticks, sweepAt, client>>

----------------------------------------------------------------------------
(* Expiry: the per-lock timer callback and the periodic cleanup *)

(* a slip: an expiry callback that does not look at the clock *)
ShouldExpireIgnoresTime(seat, t) == seat.status = "locked"

(* the test both callbacks make before releasing *)
ShouldExpire(seat, t) == seat.status = "locked" /\ Expired(seat, t)

(* the setTimeout callback of scheduleAutoRelease for timer t, which has   *)
(* left the pending set when its callback runs                             *)
TimerFire(t) ==
  /\ t \in timers
  /\ now >= t.fireAt
  /\ LET seat == seats[t.seat]
         T1   == timers \ {t}
     IN  IF ShouldExpire(seat, now)
         THEN /\ seats' = [seats EXCEPT ![t.seat] = releaseLockSeat(seat)]
              /\ timers' = releaseLockTimers(T1, seat)
         ELSE /\ seats' = seats
              /\ timers' = T1
  /\ UNCHANGED <<now, ticks, sweepAt, resp, client>>

(* the setInterval callback: one pass over all seats with one reading of   *)
(* the clock; the interval timer is re-armed from the time the pass ran    *)
RECURSIVE sweepTimers(_, _, _)
sweepTimers(T, S, ids) ==
  IF ids = {} THEN T
  ELSE LET i == CHOOSE j \in ids : \A k \in ids : j <= k
           T1 == IF ShouldExpire(S[i], now) THEN releaseLockTimers(T, S[i]) ELSE T
       IN  sweepTimers(T1, S, ids \ {i})

(* a slip: the interval armed with the lock duration *)
SweepRearmsLate ==
  /\ now >= sweepAt
  /\ seats' = [i \in SeatIds |->
                 IF ShouldExpire(seats[i], now) THEN releaseLockSeat(seats[i])
                 ELSE seats[i]]
  /\ timers' = sweepTimers(timers, seats, SeatIds)
  /\ sweepAt' = now + LOCK_DURATION_MS
  /\ UNCHANGED <<now, ticks, resp, client>>

Sweep ==
  /\ now >= sweepAt
  /\ seats' = [i \in SeatIds |->
                 IF ShouldExpire(seats[i], now) THEN releaseLockSeat(seats[i])
                 ELSE seats[i]]
  /\ timers' = sweepTimers(timers, seats, SeatIds)
  /\ sweepAt' = now + CLEANUP_INTERVAL_MS
  /\ UNCHANGED <<now, ticks, resp, client>>

(* the clock advances *)
Tick(d) ==
  /\ ticks < MaxTicks
  /\ now' = now + d
  /\ ticks' = ticks + 1
  /\ UNCHANGED <<seats, timers, sweepAt, resp, client>>

----------------------------------------------------------------------------

Next ==
  \/ \E b \in Bodies : Lock(b)
  \/ \E b \in Bodies : Confirm(b)
  \/ \E b \in Bodies : Release(b)
  \/ \E t \in timers : TimerFire(t)
  \/ Sweep
  \/ \E d \in TickSteps : Tick(d)

Spec == Init /\ [][Next]_vars

----------------------------------------------------------------------------
(* The race of test.js: both users post /lock for targetSeat at once, the  *)
(* server serves the two in either order; when both answers are in, each   *)
(* user posts /confirm.  The timers, the sweep and the clock run as above. *)

RaceBody(u) == [seatId |-> targetSeat, seatIdType |-> "number", userId |-> u]

Served(pcs) == Cardinality({u \in Users : client[u].pc \in pcs})

attemptLock(u) ==
  /\ client[u].pc = "lock"
  /\ LockStep(RaceBody(u))
  /\ client' = [client EXCEPT ![u] =
        [@ EXCEPT !.pc = "confirm", !.lockKind = resp'.kind,
                  !.lockHolder = resp'.holder, !.lockAt = now,
                  !.lockSeq = 1 + Served({"confirm", "done"}),
                  !.lockExpiresAt = resp'.expiresAt]]
  /\ UNCHANGED <<now, ticks, sweepAt>>

confirm(u) ==
  /\ client[u].pc = "confirm"
  /\ \A v \in Users : client[v].pc # "lock"
  /\ ConfirmStep(RaceBody(u))
  /\ client' = [client EXCEPT ![u] =
        [@ EXCEPT !.pc = "done", !.confirmKind = resp'.kind,
                  !.confirmAt = now, !.confirmSeq = 1 + Served({"done"})]]
  /\ UNCHANGED <<now, ticks, sweepAt>>

InitRace ==
  /\ seats = [i \in SeatIds |-> NewSeat(i)]
  /\ timers = {}
  /\ now = 0
  /\ ticks = 0
  /\ sweepAt = CLEANUP_INTERVAL_MS
  /\ resp = [op |-> "none", seatId |-> 0, userId |-> "", code |-> 0,
             kind |-> "none", holder |-> nullOwner, expiresAt |-> null,
             path |-> ""]
  /\ client = [u \in Users |-> [IdleClient EXCEPT !.pc = "lock"]]

NextRace ==
  \/ \E u \in Users : attemptLock(u)
  \/ \E u \in Users : confirm(u)
  \/ \E t \in timers : TimerFire(t)
  \/ Sweep
  \/ \E d \in TickSteps : Tick(d)

SpecRace == InitRace /\ [][NextRace]_vars

----------------------------------------------------------------------------
(* The server with a punctual interval timer: the clock cannot pass the    *)
(* instant the sweep is due before the sweep has run.  The per-lock timers *)
(* stay free to run late or not at all.  The clock moves by the grace or   *)
(* up to the next sweep.                                                   *)

TickTimed(d) ==
  /\ ticks < MaxTimedTicks
  /\ d > 0
  /\ now + d <= sweepAt
  /\ now' = now + d
  /\ ticks' = ticks + 1
  /\ UNCHANGED <<seats, timers, sweepAt, resp, client>>

NextTimed ==
  \/ \E u \in Users : Lock(RaceBody(u))
  \/ \E u \in Users : Confirm(RaceBody(u))
  \/ \E u \in Users : Release(RaceBody(u))
  \/ \E t \in timers : TimerFire(t)
  \/ Sweep
  \/ \E d \in {GRACE_MS, sweepAt - now} : TickTimed(d)

SpecTimed == Init /\ [][NextTimed]_vars

----------------------------------------------------------------------------
(* The server with requests for two seats, targetSeat and the next one.    *)

PairSeats == {targetSeat, targetSeat + 1}

PairBodies == [seatId : PairSeats, seatIdType : {"number"}, userId : Users]

NextPair ==
  \/ \E b \in PairBodies : Lock(b)
  \/ \E b \in PairBodies : Confirm(b)
  \/ \E b \in PairBodies : Release(b)
  \/ \E t \in timers : TimerFire(t)
  \/ Sweep
  \/ \E d \in {GRACE_MS, LOCK_DURATION_MS} : Tick(d)

SpecPair == Init /\ [][NextPair]_vars

----------------------------------------------------------------------------
(* The holder who keeps refreshing: userA locks targetSeat and posts /lock *)
(* again before every lockExpiresAt, so the clock never reaches the expiry *)
(* of the lock that stands; userB keeps posting /lock for the same seat.   *)
(* The per-lock timer is then never due (C20 checks it), so its callback   *)
(* has no step here; the sweep runs as always.                             *)

HoldSteps == {CLEANUP_INTERVAL_MS, LOCK_DURATION_MS - GRACE_MS}

TickHold(d) ==
  /\ ticks < MaxTicks
  /\ seats[targetSeat].status = "locked"
  /\ now + d < seats[targetSeat].lockExpiresAt
  /\ now' = now + d
  /\ ticks' = ticks + 1
  /\ UNCHANGED <<seats, timers, sweepAt, resp, client>>

HolderLock == Lock(RaceBody(userA))

RivalLock == seats[targetSeat].status = "locked" /\ Lock(RaceBody(userB))

NextHold ==
  \/ HolderLock
  \/ RivalLock
  \/ Sweep
  \/ \E d \in HoldSteps : TickHold(d)

SpecHold == Init /\ [][NextHold]_vars

----------------------------------------------------------------------------
(* Properties *)

Valid(b) == ~BadRequest(b) /\ b.seatId \in SeatIds

(* the pending timers of seat i *)
TimersOf(T, i) == {t \in T : t.seat = i}

(* C1: mutual exclusion.  A /lock by B on a seat that A holds with         *)
(* now < lockExpiresAt is answered 409 LockConflict naming A and changes   *)
(* nothing; and in no step at all does a locked seat pass to another owner *)
(* while its lease is still running.                                       *)
C1_MutualExclusion ==
  [][ /\ \A b \in Bodies :
          ( /\ Lock(b)
            /\ Valid(b)
            /\ seats[b.seatId].status = "locked"
            /\ now < seats[b.seatId].lockExpiresAt
            /\ seats[b.seatId].lockOwner # b.userId )
          => ( /\ resp'.code = 409
               /\ resp'.kind = "LockConflict"
               /\ resp'.holder = seats[b.seatId].lockOwner
               /\ seats' = seats
               /\ timers' = timers )
      /\ \A i \in SeatIds :
          ( /\ seats[i].status = "locked"
            /\ seats'[i].status = "locked"
            /\ seats'[i].lockOwner # seats[i].lockOwner )
          => now >= seats[i].lockExpiresAt
    ]_vars

C1_Witness ==
  /\ resp.op = "lock" /\ resp.kind = "LockConflict"
  /\ resp.userId = userB /\ resp.holder = userA
  /\ seats[targetSeat].status = "locked"
  /\ seats[targetSeat].lockOwner = userA
  /\ now > 0 /\ now < seats[targetSeat].lockExpiresAt

(* C2: no double booking.  A seat becomes booked only in a /confirm by the *)
(* holder of its lock, posted while the seat is locked and                 *)
(* now < lockExpiresAt; the owner of a booked seat never changes; and every *)
(* /confirm answered with success is such a step, so two different users   *)
(* never both get a success for one seat.                                  *)
C2_NoDoubleBooking ==
  [][ /\ \A i \in SeatIds :
          (seats[i].status # "booked" /\ seats'[i].status = "booked")
          => /\ seats[i].status = "locked"
             /\ now < seats[i].lockExpiresAt
             /\ seats'[i].lockOwner = seats[i].lockOwner
             /\ \E b \in Bodies : /\ Confirm(b)
                                  /\ b.seatId = i
                                  /\ b.userId = seats[i].lockOwner
             /\ resp'.op = "confirm" /\ resp'.code = 200
             /\ resp'.userId = seats[i].lockOwner
      /\ \A i \in SeatIds :
          seats[i].status = "booked"
          => seats'[i].status = "booked" /\ seats'[i].lockOwner = seats[i].lockOwner
      /\ \A b \in Bodies :
          (Confirm(b) /\ resp'.code = 200)
          => /\ Valid(b)
             /\ seats[b.seatId].status = "locked"
             /\ seats[b.seatId].lockOwner = b.userId
             /\ now < seats[b.seatId].lockExpiresAt
             /\ seats'[b.seatId].status = "booked"
             /\ seats'[b.seatId].lockOwner = b.userId
    ]_vars

C2_Witness ==
  /\ resp.op = "confirm" /\ resp.code = 200 /\ resp.userId = userB
  /\ seats[targetSeat].status = "booked"
  /\ seats[targetSeat].lockOwner = userB
  /\ now > LOCK_DURATION_MS

(* C3: booking is terminal.  No step changes the status of a booked seat;  *)
(* on a booked seat /lock and /confirm are answered 409 AlreadyBooked and  *)
(* /release 409 NotLocked.                                                 *)
C3_BookedIsTerminal ==
  [][ /\ \A i \in SeatIds :
          seats[i].status = "booked" => seats'[i] = seats[i]
      /\ \A b \in Bodies :
          (Valid(b) /\ seats[b.seatId].status = "booked")
          => /\ Lock(b) => resp'.code = 409 /\ resp'.kind = "AlreadyBooked"
             /\ Confirm(b) => resp'.code = 409 /\ resp'.kind = "AlreadyBooked"
             /\ Release(b) => resp'.code = 409 /\ resp'.kind = "NotLocked"
    ]_vars

C3_Witness ==
  /\ seats[targetSeat].status = "booked"
  /\ resp.op = "release" /\ resp.kind = "NotLocked"
  /\ resp.seatId = targetSeat
  /\ resp.userId = seats[targetSeat].lockOwner
  /\ now > LOCK_DURATION_MS
  /\ sweepAt > now

(* C4: in every state, for every seat, the status is one of available,     *)
(* locked, booked; lockOwner is set exactly when the seat is locked or     *)
(* booked; lockExpiresAt is set exactly when the seat is locked.           *)
C4_RecordInvariant ==
  \A i \in SeatIds :
    /\ seats[i].status \in {"available", "locked", "booked"}
    /\ (seats[i].lockOwner # nullOwner) <=> (seats[i].status \in {"locked", "booked"})
    /\ (seats[i].lockExpiresAt # null) <=> (seats[i].status = "locked")

C4_Witness ==
  /\ resp.op = "release" /\ resp.code = 200
  /\ seats[targetSeat].status = "available"
  /\ seats[targetSeat].lockOwner = nullOwner
  /\ seats[targetSeat].lockExpiresAt = null

(* C5: the race for one seat.  When both users' /lock and /confirm are all *)
(* served before the first lock's lockExpiresAt: the /lock served first    *)
(* succeeds, the other is answered LockConflict naming the winner; the     *)
(* winner's /confirm succeeds, the loser's fails with NotLockOwner if      *)
(* served before the winner's and AlreadyBooked if after; the seat ends    *)
(* booked by the winner.                                                   *)
RaceDone == \A u \in Users : client[u].pc = "done"

Winner == CHOOSE u \in Users : client[u].lockSeq = 1

Loser == CHOOSE u \in Users : u # Winner

RaceInLease ==
  \A u \in Users : /\ client[u].lockAt < client[Winner].lockExpiresAt
                   /\ client[u].confirmAt < client[Winner].lockExpiresAt

C5_RaceOneWinner ==
  (RaceDone /\ RaceInLease) =>
    /\ client[Winner].lockKind = "Locked"
    /\ client[Loser].lockKind = "LockConflict"
    /\ client[Loser].lockHolder = Winner
    /\ client[Winner].confirmKind = "Booked"
    /\ client[Loser].confirmKind =
         (IF client[Loser].confirmSeq < client[Winner].confirmSeq
          THEN "NotLockOwner" ELSE "AlreadyBooked")
    /\ seats[targetSeat].status = "booked"
    /\ seats[targetSeat].lockOwner = Winner

C5_Witness ==
  /\ RaceDone /\ RaceInLease
  /\ Winner = userB
  /\ client[userA].confirmKind = "NotLockOwner"
  /\ client[userA].lockAt > 0
  /\ client[userB].confirmAt > client[userA].confirmAt
  /\ sweepAt > CLEANUP_INTERVAL_MS

(* C6: /confirm on an expired lock.  A /confirm by the holder of a locked  *)
(* seat, served when now >= lockExpiresAt, is answered 409 LockExpired and *)
(* in the same step leaves the seat available, owner and expiry cleared,   *)
(* no timer handle kept and no timer pending for the seat.                 *)
C6_ConfirmExpired ==
  [][ \A b \in Bodies :
        ( /\ Confirm(b)
          /\ Valid(b)
          /\ seats[b.seatId].status = "locked"
          /\ seats[b.seatId].lockOwner = b.userId
          /\ now >= seats[b.seatId].lockExpiresAt )
        => ( /\ resp'.code = 409
             /\ resp'.kind = "LockExpired"
             /\ seats'[b.seatId] = NewSeat(b.seatId)
             /\ TimersOf(timers', b.seatId) = {}
             /\ TimersOf(timers, b.seatId) # {} )
    ]_vars

C6_Witness ==
  /\ resp.op = "confirm" /\ resp.kind = "LockExpired"
  /\ resp.seatId = targetSeat
  /\ seats[targetSeat] = NewSeat(targetSeat)
  /\ timers = {}

(* C7 as claimed: a /confirm by A that directly follows A's successful     *)
(* /lock on the seat and is served at or after the lockExpiresAt of that   *)
(* lock is answered LockExpired and leaves the seat available, whether or  *)
(* not the timer or the sweep ran in between.                              *)
LapsedConfirm(b) == Confirm(b) /\ Valid(b) /\ Lapsed(b)

C7_Original ==
  [][ \A b \in Bodies :
        LapsedConfirm(b)
        => resp'.kind = "LockExpired" /\ seats'[b.seatId].status = "available"
    ]_vars

(* C7 amended: such a /confirm fails with 409 and leaves the seat          *)
(* available; it is answered LockExpired when the seat is still locked     *)
(* (neither the timer nor the sweep has run) and NotLocked when the timer  *)
(* or the sweep has already released the seat.                             *)
C7_LapsedConfirmFails ==
  [][ \A b \in Bodies :
        LapsedConfirm(b)
        => /\ resp'.code = 409
           /\ resp'.kind = (IF seats[b.seatId].status = "locked"
                            THEN "LockExpired" ELSE "NotLocked")
           /\ seats[b.seatId].status \in {"locked", "available"}
           /\ seats[b.seatId].status = "locked"
                => (seats[b.seatId].lockOwner = b.userId /\ timers # {})
           /\ seats'[b.seatId] = NewSeat(b.seatId)
    ]_vars

C7_Witness ==
  /\ resp.op = "confirm" /\ resp.kind = "NotLocked" /\ resp.path = "lapsed"
  /\ resp.seatId = targetSeat /\ resp.userId = userA
  /\ seats[targetSeat] = NewSeat(targetSeat)
  /\ now >= LOCK_DURATION_MS + GRACE_MS
  /\ sweepAt = CLEANUP_INTERVAL_MS

(* the one timer a seat locked at time t must have *)
LockTimer(S, i, t) ==
  [id |-> S[i].timeoutId, seat |-> i,
   fireAt |-> t + LOCK_DURATION_MS + GRACE_MS]

(* C8: idempotent refresh.  A /lock by the holder of a locked seat, served *)
(* while now < lockExpiresAt, can always be served and succeeds: the seat  *)
(* stays locked by the same owner, lockExpiresAt becomes                   *)
(* now + LOCK_DURATION_MS, which is not earlier than before, and the       *)
(* seat's pending timer is replaced by one for the new deadline.           *)
C8_IdempotentRefresh ==
  [][ \A b \in Bodies :
        ( /\ Valid(b)
          /\ seats[b.seatId].status = "locked"
          /\ seats[b.seatId].lockOwner = b.userId
          /\ now < seats[b.seatId].lockExpiresAt )
        => /\ CanSchedule(seats, timers, seats[b.seatId])
           /\ Lock(b) =>
                /\ resp'.code = 200
                /\ resp'.kind = "LockRefreshed"
                /\ resp'.expiresAt = now + LOCK_DURATION_MS
                /\ seats'[b.seatId].status = "locked"
                /\ seats'[b.seatId].lockOwner = b.userId
                /\ seats'[b.seatId].lockExpiresAt = now + LOCK_DURATION_MS
                /\ seats'[b.seatId].lockExpiresAt >= seats[b.seatId].lockExpiresAt
                /\ seats'[b.seatId].timeoutId # null
                /\ Cardinality(TimersOf(timers, b.seatId)) = 1
                /\ TimersOf(timers', b.seatId) = {LockTimer(seats', b.seatId, now)}
    ]_vars

(* a refresh served after the clock has advanced twice since startup *)
C8_Witness ==
  /\ resp.op = "lock" /\ resp.kind = "LockRefreshed"
  /\ resp.userId = userA
  /\ ticks >= 2
  /\ seats[targetSeat].status = "locked"
  /\ seats[targetSeat].lockOwner = userA
  /\ seats[targetSeat].lockExpiresAt = now + LOCK_DURATION_MS
  /\ now = CLEANUP_INTERVAL_MS + GRACE_MS
  /\ timers = {LockTimer(seats, targetSeat, now)}

(* C9: lazy expiry in /lock.  A /lock by any user on a seat that is still  *)
(* recorded as locked although now >= lockExpiresAt can be served and      *)
(* succeeds: afterwards the seat is locked by the requester with           *)
(* lockExpiresAt = now + LOCK_DURATION_MS and the seat's only pending      *)
(* timer is the one scheduled for this lock.                               *)
C9_LazyExpiryInLock ==
  [][ \A b \in Bodies :
        ( /\ Valid(b)
          /\ seats[b.seatId].status = "locked"
          /\ now >= seats[b.seatId].lockExpiresAt )
        => /\ CanSchedule(seats, timers, releaseLockSeat(seats[b.seatId]))
           /\ Lock(b) =>
                /\ resp'.code = 200
                /\ resp'.kind = "Locked"
                /\ resp'.expiresAt = now + LOCK_DURATION_MS
                /\ seats'[b.seatId].status = "locked"
                /\ seats'[b.seatId].lockOwner = b.userId
                /\ seats'[b.seatId].lockExpiresAt = now + LOCK_DURATION_MS
                /\ seats'[b.seatId].timeoutId # null
                /\ TimersOf(timers, b.seatId) # {}
                /\ TimersOf(timers', b.seatId) = {LockTimer(seats', b.seatId, now)}
    ]_vars

C9_Witness ==
  /\ resp.op = "lock" /\ resp.kind = "Locked" /\ resp.path = "expired-other"
  /\ resp.userId = userB
  /\ seats[targetSeat].status = "locked"
  /\ seats[targetSeat].lockOwner = userB
  /\ seats[targetSeat].lockExpiresAt = now + LOCK_DURATION_MS
  /\ timers = {LockTimer(seats, targetSeat, now)}

(* C10: expiry never takes away a running lease.  A timer callback or a    *)
(* sweep changes the record of a seat only if the seat is locked and       *)
(* now >= lockExpiresAt when it runs; a sweep also leaves the pending      *)
(* timers of all other seats as they are.                                  *)
C10_ExpireOnlyExpired ==
  [][ ((\E t \in timers : TimerFire(t)) \/ Sweep)
        => /\ \A i \in SeatIds :
                seats'[i] # seats[i]
                => (seats[i].status = "locked" /\ now >= seats[i].lockExpiresAt)
           /\ Sweep =>
                \A i \in SeatIds :
                  (seats[i].status # "locked" \/ now < seats[i].lockExpiresAt)
                  => TimersOf(timers', i) = TimersOf(timers, i)
    ]_vars

(* a sweep has just passed over a seat whose lease, taken earlier, runs on *)
C10_Witness ==
  /\ sweepAt = now + CLEANUP_INTERVAL_MS
  /\ seats[targetSeat].status = "locked"
  /\ now < seats[targetSeat].lockExpiresAt
  /\ seats[targetSeat].lockExpiresAt < now + LOCK_DURATION_MS
  /\ timers = {[id |-> seats[targetSeat].timeoutId, seat |-> targetSeat,
                fireAt |-> seats[targetSeat].lockExpiresAt + GRACE_MS]}

C12_AtMostOneTimer ==
  \A i \in SeatIds : Cardinality(TimersOf(timers, i)) <= 1

(* a lock taken over from the requester's own expired lock: of the two    *)
(* timers scheduled for the seat only the second is pending                *)
C12_Witness ==
  /\ resp.op = "lock" /\ resp.path = "expired-own"
  /\ seats[targetSeat].status = "locked"
  /\ seats[targetSeat].lockExpiresAt > 2 * LOCK_DURATION_MS
  /\ Cardinality(TimersOf(timers, targetSeat)) = 1

(* C13: a pending timer always belongs to the current lock.  In every      *)
(* state a seat has a pending timer exactly when it is locked, that timer  *)
(* is the one whose handle the seat holds and it is due at                 *)
(* lockExpiresAt + GRACE_MS; a seat that is available or booked holds no   *)
(* handle and has no pending timer.                                        *)
C13_TimerBelongsToLock ==
  \A i \in SeatIds :
    IF seats[i].status = "locked"
    THEN TimersOf(timers, i) =
           {[id |-> seats[i].timeoutId, seat |-> i,
             fireAt |-> seats[i].lockExpiresAt + GRACE_MS]}
    ELSE TimersOf(timers, i) = {} /\ seats[i].timeoutId = null

(* booked after the clock has advanced: the confirm cancelled the timer   *)
C13_Witness ==
  /\ resp.op = "confirm" /\ resp.code = 200
  /\ seats[targetSeat].status = "booked"
  /\ seats[targetSeat].timeoutId = null
  /\ timers = {}
  /\ now > 0

(* C14: explicit release.  A /release by the holder of a locked seat,      *)
(* whether or not the lease has passed, succeeds and leaves the seat       *)
(* available with owner and expiry cleared and no timer; a /lock on that   *)
(* seat by any user served as the next request can be served, succeeds and *)
(* leaves the seat locked by that user.                                    *)
C14_ExplicitRelease ==
  [][ /\ \A b \in Bodies :
          ( /\ Release(b)
            /\ Valid(b)
            /\ seats[b.seatId].status = "locked"
            /\ seats[b.seatId].lockOwner = b.userId )
          => /\ resp'.code = 200
             /\ seats'[b.seatId] = NewSeat(b.seatId)
             /\ TimersOf(timers, b.seatId) # {}
             /\ TimersOf(timers', b.seatId) = {}
      /\ \A b \in Bodies :
          (Valid(b) /\ AfterRelease(b))
          => /\ CanSchedule(seats, timers, seats[b.seatId])
             /\ Lock(b) =>
                  /\ resp'.code = 200
                  /\ resp'.kind = "Locked"
                  /\ seats'[b.seatId].status = "locked"
                  /\ seats'[b.seatId].lockOwner = b.userId
                  /\ seats'[b.seatId].lockExpiresAt = now + LOCK_DURATION_MS
                  /\ TimersOf(timers', b.seatId) = {LockTimer(seats', b.seatId, now)}
    ]_vars

(* B holds the seat that A released; no sweep has run                     *)
C14_Witness ==
  /\ resp.op = "lock" /\ resp.path = "released-other"
  /\ resp.userId = userB
  /\ seats[targetSeat].status = "locked"
  /\ seats[targetSeat].lockOwner = userB
  /\ now >= LOCK_DURATION_MS
  /\ sweepAt = CLEANUP_INTERVAL_MS

(* C15: unknown ids and fixed pool.  The seat ids are 1..20 in every       *)
(* state, every seat is available before the first request is served, and  *)
(* a well-formed /lock, /confirm or /release naming an id outside 1..20 is *)
(* answered 404 NotFound and changes no seat record and no timer.          *)
C15_FixedPoolNotFound ==
  [][ /\ DOMAIN seats = 1..20
      /\ DOMAIN seats' = 1..20
      /\ \A i \in 1..20 : seats'[i].id = i
      /\ resp.op = "none" => \A i \in 1..20 : seats[i] = NewSeat(i)
      /\ \A b \in Bodies :
          ( /\ Lock(b) \/ Confirm(b) \/ Release(b)
            /\ ~BadRequest(b)
            /\ b.seatId \notin 1..20 )
          => /\ resp'.code = 404
             /\ resp'.kind = "NotFound"
             /\ seats' = seats
             /\ timers' = timers
    ]_vars

C15_Witness ==
  /\ resp.op = "release" /\ resp.kind = "NotFound"
  /\ resp.seatId = NUM_SEATS + 1
  /\ seats[targetSeat].status = "locked"
  /\ DOMAIN seats = 1..20

(* C16: /confirm tests in the order AlreadyBooked, NotLocked,              *)
(* NotLockOwner, LockExpired.  In particular a /confirm by A on a seat     *)
(* locked by B whose lease has passed is answered 403 NotLockOwner naming  *)
(* B and leaves the seat and its timer as they are.                        *)
ConfirmKind(seat, userId, t) ==
  IF seat.status = "booked" THEN "AlreadyBooked"
  ELSE IF seat.status # "locked" THEN "NotLocked"
  ELSE IF seat.lockOwner # userId THEN "NotLockOwner"
  ELSE IF t >= seat.lockExpiresAt THEN "LockExpired"
  ELSE "Booked"

C16_ConfirmOrder ==
  [][ \A b \in Bodies :
        (Confirm(b) /\ Valid(b))
        => /\ resp'.kind = ConfirmKind(seats[b.seatId], b.userId, now)
           /\ ( /\ seats[b.seatId].status = "locked"
                /\ seats[b.seatId].lockOwner # b.userId
                /\ now >= seats[b.seatId].lockExpiresAt )
              => /\ resp'.code = 403
                 /\ resp'.holder = seats[b.seatId].lockOwner
                 /\ seats' = seats
                 /\ timers' = timers
    ]_vars

C16_Witness ==
  /\ resp.op = "confirm" /\ resp.kind = "NotLockOwner"
  /\ resp.userId = userA /\ resp.holder = userB
  /\ seats[targetSeat].status = "locked"
  /\ seats[targetSeat].lockOwner = userB
  /\ now >= seats[targetSeat].lockExpiresAt
  /\ timers # {}

(* C17: expiry is idempotent and order-independent.  On a seat that is     *)
(* locked with now >= lockExpiresAt each of the four expiry checks, when   *)
(* it runs, ends that lock: the sweep, the seat's timer callback and the   *)
(* holder's /confirm leave the seat available with no timer, a /lock       *)
(* replaces it by a new lock.  On a seat that is locked with               *)
(* now < lockExpiresAt none of the four ends the lock and the seat's timer *)
(* is not yet due.  A sweep changes no other seat and only locked seats    *)
(* have timers, so after the first release a later sweep or timer is a     *)
(* no-op and the two give the same seat in either order.                   *)
ExpiresNow(i) ==
  seats[i].status = "locked" /\ now >= seats[i].lockExpiresAt

Released(i) == seats'[i] = NewSeat(i) /\ TimersOf(timers', i) = {}

C17_ExpiryOrderIndependent ==
  [][ /\ Sweep =>
           \A i \in SeatIds :
             IF ExpiresNow(i) THEN Released(i) ELSE seats'[i] = seats[i]
      /\ \A t \in timers :
           /\ TimerFire(t) => (ExpiresNow(t.seat) /\ Released(t.seat))
           /\ (seats[t.seat].status = "locked" /\ ~ExpiresNow(t.seat))
                => now < t.fireAt
           /\ seats[t.seat].status = "locked"
      /\ \A b \in Bodies :
           (Valid(b) /\ seats[b.seatId].status = "locked") =>
             IF ExpiresNow(b.seatId)
             THEN /\ (Confirm(b) /\ b.userId = seats[b.seatId].lockOwner) =>
                       resp'.kind = "LockExpired" /\ Released(b.seatId)
                  /\ Lock(b) =>
                       /\ resp'.kind = "Locked"
                       /\ resp'.path \in {"expired-own", "expired-other"}
                       /\ seats'[b.seatId].lockExpiresAt = now + LOCK_DURATION_MS
                       /\ TimersOf(timers, b.seatId)
                            \cap TimersOf(timers', b.seatId) = {}
             ELSE /\ Confirm(b) => resp'.kind # "LockExpired"
                  /\ Lock(b) => resp'.kind \in {"LockRefreshed", "LockConflict"}
    ]_vars

(* the sweep released an expired lock inside the grace window, before the  *)
(* seat's timer was due; no request has been served since the lock         *)
C17_Witness ==
  /\ resp.op = "lock" /\ resp.code = 200 /\ resp.seatId = targetSeat
  /\ resp.expiresAt <= now
  /\ now < resp.expiresAt + GRACE_MS
  /\ sweepAt = now + CLEANUP_INTERVAL_MS
  /\ seats[targetSeat] = NewSeat(targetSeat)
  /\ timers = {}

(* C18: every failing request except /confirm's LockExpired leaves the     *)
(* seat alone.  A well-formed request on an existing seat that is not      *)
(* answered 200 and not LockExpired is answered AlreadyBooked or           *)
(* LockConflict (/lock), AlreadyBooked, NotLocked or NotLockOwner          *)
(* (/confirm), NotLocked or NotLockOwner (/release), and changes neither   *)
(* the seat records nor the pending timers.                                *)
C18_FailureLeavesSeat ==
  [][ \A b \in Bodies :
        ( /\ Valid(b)
          /\ Lock(b) \/ Confirm(b) \/ Release(b)
          /\ resp'.code # 200
          /\ resp'.kind # "LockExpired" )
        => /\ seats' = seats
           /\ timers' = timers
           /\ Lock(b) => resp'.kind \in {"AlreadyBooked", "LockConflict"}
           /\ Confirm(b) => resp'.kind \in {"AlreadyBooked", "NotLocked", "NotLockOwner"}
           /\ Release(b) => resp'.kind \in {"NotLocked", "NotLockOwner"}
    ]_vars

C18_Witness ==
  /\ resp.op = "release" /\ resp.kind = "NotLockOwner"
  /\ resp.userId = userA
  /\ seats[targetSeat].status = "locked"
  /\ seats[targetSeat].lockOwner = userB
  /\ timers = {[id |-> seats[targetSeat].timeoutId, seat |-> targetSeat,
                fireAt |-> seats[targetSeat].lockExpiresAt + GRACE_MS]}

(* C19: operations on different seats are independent.  If a step changes  *)
(* the record or the pending timers of seat j, the step is a /lock,        *)
(* /confirm or /release naming j, a timer callback of j, or a sweep run    *)
(* while j is locked with now >= lockExpiresAt; so a request or timer for  *)
(* seat i leaves every other seat as it is, and a sweep changes exactly    *)
(* the seats whose lock has expired.                                       *)
SameSeat(j) ==
  seats'[j] = seats[j] /\ TimersOf(timers', j) = TimersOf(timers, j)

C19_SeatsIndependent ==
  [][ /\ \A j \in SeatIds :
           \/ (seats' = seats /\ timers' = timers)
           \/ SameSeat(j)
           \/ \E b \in PairBodies :
                b.seatId = j /\ (Lock(b) \/ Confirm(b) \/ Release(b))
           \/ \E t \in TimersOf(timers, j) : TimerFire(t)
           \/ (ExpiresNow(j) /\ Sweep)
      /\ (sweepAt' # sweepAt /\ Sweep)
           => \A j \in SeatIds : ExpiresNow(j) => seats'[j] # seats[j]
    ]_vars

(* one seat just booked by A while B's lock on the other, taken earlier,   *)
(* stands with its timer                                                   *)
C19_Witness ==
  /\ resp.op = "confirm" /\ resp.code = 200 /\ resp.seatId = targetSeat
  /\ seats[targetSeat].status = "booked"
  /\ seats[targetSeat].lockOwner = userA
  /\ seats[targetSeat + 1].status = "locked"
  /\ seats[targetSeat + 1].lockOwner = userB
  /\ seats[targetSeat + 1].lockExpiresAt < now + LOCK_DURATION_MS
  /\ TimersOf(timers, targetSeat + 1) =
       {[id |-> seats[targetSeat + 1].timeoutId, seat |-> targetSeat + 1,
         fireAt |-> seats[targetSeat + 1].lockExpiresAt + GRACE_MS]}
  /\ TimersOf(timers, targetSeat) = {}

(* C20: unbounded hold by refresh.  While the holder refreshes before      *)
(* every lockExpiresAt, from the first /lock on the seat is locked by the  *)
(* holder in every state, however far the clock has run: its lease is      *)
(* running, no timer is due, every /lock of the holder succeeded and every *)
(* /lock of the rival was answered LockConflict naming the holder.  So a   *)
(* locked seat need never become available or booked.                      *)
C20_UnboundedHold ==
  resp.op # "none" =>
    /\ seats[targetSeat].status = "locked"
    /\ seats[targetSeat].lockOwner = userA
    /\ now < seats[targetSeat].lockExpiresAt
    /\ seats[targetSeat].lockExpiresAt <= now + LOCK_DURATION_MS
    /\ \A t \in timers : now < t.fireAt
    /\ resp.userId = userA => resp.code = 200
    /\ resp.userId = userB =>
         (resp.code = 409 /\ resp.kind = "LockConflict" /\ resp.holder = userA)

(* held for more than twice the lock duration, the rival just rejected *)
C20_Witness ==
  /\ now > 2 * LOCK_DURATION_MS
  /\ seats[targetSeat].status = "locked"
  /\ seats[targetSeat].lockOwner = userA
  /\ resp.op = "lock" /\ resp.userId = userB /\ resp.kind = "LockConflict"
  /\ sweepAt > 2 * LOCK_DURATION_MS

====
